---- MODULE Spec2Model ----
(***************************************************************************)
(* JSON-LD schema generators of the blog feature:                          *)
(*   generateArticleSchema     (Article)                                   *)
(*   generateBreadcrumbSchema  (BreadcrumbList)                            *)
(* JavaScript values are tagged records, objects live in a heap (a         *)
(* sequence of property maps, an object reference is an index into it), so *)
(* that absence of a property, aliasing and mutation are all expressible.  *)
(***************************************************************************)
EXTENDS Integers, Sequences, FiniteSets, TLC

VARIABLES heap, post, options, article, breadcrumb, ncalls

vars == <<heap, post, options, article, breadcrumb, ncalls>>

(* ------------------------------ bounds --------------------------------- *)

\* calls made in one behaviour
MaxCalls == 3

\* own properties of the options object the caller passes
MaxOptionKeys == 2

(* --------------------------- JavaScript values ------------------------- *)

Undefined == [type |-> "undefined", str |-> "", num |-> 0]

Null == [type |-> "null", str |-> "", num |-> 0]

Str(s) == [type |-> "string", str |-> s, num |-> 0]

Num(n) == [type |-> "number", str |-> "", num |-> n]

Bool(b) == [type |-> "boolean", str |-> "", num |-> IF b THEN 1 ELSE 0]

Ref(a) == [type |-> "object", str |-> "", num |-> a]

EmptyObject == [k \in {} |-> Undefined]

Digits == "0123456789"

RECURSIVE NumberToString(_)
NumberToString(n) ==
  IF n < 10 THEN SubSeq(Digits, n + 1, n + 1)
  ELSE NumberToString(n \div 10) \o SubSeq(Digits, (n % 10) + 1, (n % 10) + 1)

\* the string a template literal substitutes for a primitive value
StringOf(v) ==
  CASE v.type = "string" -> v.str
    [] v.type = "undefined" -> "undefined"
    [] v.type = "null" -> "null"
    [] v.type = "number" -> NumberToString(v.num)
    [] v.type = "boolean" -> (IF v.num = 1 THEN "true" ELSE "false")
    [] OTHER -> "[object Object]"

\* v !== undefined : a presence test in place of the truthiness test (faulty variant)
IsNotUndefined(v) == v.type # "undefined"

\* the condition of  if (v)
Truthy(v) ==
  CASE v.type = "string" -> v.str # ""
    [] v.type = "number" -> v.num # 0
    [] v.type = "boolean" -> v.num = 1
    [] v.type = "object" -> TRUE
    [] OTHER -> FALSE

Nullish(v) == v.type \in {"undefined", "null"}

\* a || b : in place of ?? it would also replace '' (faulty variant)
LogicalOr(a, b) == IF Truthy(a) THEN a ELSE b

\* a ?? b
NullishCoalesce(a, b) == IF Nullish(a) THEN b ELSE a

\* s.startsWith(p) on strings
StartsWith(s, p) == Len(s) >= Len(p) /\ SubSeq(s, 1, Len(p)) = p

(* ------------------------------- the heap ------------------------------ *)

\* v.key : the read of a property (v is not null or undefined)
PropertyOf(h, v, key) ==
  IF v.type = "object" /\ key \in DOMAIN h[v.num] THEN h[v.num][key]
  ELSE Undefined

\* a property map with key set to v
WithProperty(obj, key, v) ==
  [k \in DOMAIN obj \cup {key} |-> IF k = key THEN v ELSE obj[k]]

\* target.key = v
SetProperty(h, target, key, v) ==
  [h EXCEPT ![target.num] = WithProperty(@, key, v)]

\* an object literal: a new object at a new address
Allocate(h, obj) == Append(h, obj)

NewRef(h) == Ref(Len(h) + 1)

(* ------------------------- generateArticleSchema ----------------------- *)

BASE_URL == "https://kanadojo.com"

PUBLISHER_NAME == "KanaDojo"

PUBLISHER_LOGO == "https://kanadojo.com/logo.png"

\* function f(post, options = {}) : the default applies to undefined only
DefaultOptionsHeap(h, o) == IF o.type = "undefined" THEN Allocate(h, EmptyObject) ELSE h

DefaultOptions(h, o) == IF o.type = "undefined" THEN NewRef(h) ELSE o

\* `${baseUrl}/${post.locale}/blog` : the slug forgotten (faulty variant)
ArticleMainEntityOfPageNoSlug(baseUrl, locale, slug) ==
  Str(StringOf(baseUrl) \o "/" \o StringOf(locale) \o "/blog")

\* `${baseUrl}/${post.locale}/blog/${post.slug}`
ArticleMainEntityOfPage(baseUrl, locale, slug) ==
  Str(StringOf(baseUrl) \o "/" \o StringOf(locale) \o "/blog/" \o StringOf(slug))

\* headline: post.slug : the wrong field (faulty variant)
ArticleHeadlineFromSlug(h, p) == PropertyOf(h, p, "slug")

\* headline: post.title
ArticleHeadline(h, p) == PropertyOf(h, p, "title")

ArticleAuthor(h, p) ==
  ("@type" :> Str("Person")) @@ ("name" :> PropertyOf(h, p, "author"))

ArticleLogo(publisherLogo) ==
  ("@type" :> Str("ImageObject")) @@ ("url" :> publisherLogo)

ArticlePublisher(publisherName, logo) ==
  ("@type" :> Str("Organization")) @@ ("name" :> publisherName) @@ ("logo" :> logo)

\* const schema = { ... } : four new objects, the schema object last
ArticleSchemaLiteral(h, p, publisherName, publisherLogo, mainEntityOfPage) ==
  LET h1 == Allocate(h, ArticleAuthor(h, p))
      author == Ref(Len(h1))
      h2 == Allocate(h1, ArticleLogo(publisherLogo))
      logo == Ref(Len(h2))
      h3 == Allocate(h2, ArticlePublisher(publisherName, logo))
      publisher == Ref(Len(h3))
  IN Allocate(h3,
       ("@context" :> Str("https://schema.org"))
       @@ ("@type" :> Str("Article"))
       @@ ("headline" :> ArticleHeadline(h, p))
       @@ ("description" :> PropertyOf(h, p, "description"))
       @@ ("datePublished" :> PropertyOf(h, p, "publishedAt"))
       @@ ("author" :> author)
       @@ ("publisher" :> publisher)
       @@ ("mainEntityOfPage" :> mainEntityOfPage))

\* post.dateModified = post.updatedAt : the assignment on the argument
\* instead of the schema (faulty variant)
AddDateModifiedToPost(h, schema, p) ==
  IF Truthy(PropertyOf(h, p, "updatedAt"))
  THEN SetProperty(h, p, "dateModified", PropertyOf(h, p, "updatedAt"))
  ELSE h

\* if (post.updatedAt) { schema.dateModified = post.updatedAt; }
AddDateModified(h, schema, p) ==
  IF Truthy(PropertyOf(h, p, "updatedAt"))
  THEN SetProperty(h, schema, "dateModified", PropertyOf(h, p, "updatedAt"))
  ELSE h

\* a method call on a value: only strings have startsWith
HasStartsWith(v) == v.type = "string"

\* if (post.featuredImage) { schema.image = ... } ; threw: the call of
\* startsWith on a value that has no such method
AddFeaturedImage(h, schema, p, baseUrl) ==
  LET featuredImage == PropertyOf(h, p, "featuredImage") IN
  IF ~Truthy(featuredImage) THEN [heap |-> h, threw |-> FALSE]
  ELSE IF ~HasStartsWith(featuredImage) THEN [heap |-> h, threw |-> TRUE]
  ELSE [heap |-> SetProperty(h, schema, "image",
                   IF StartsWith(featuredImage.str, "http")
                   THEN featuredImage
                   ELSE Str(StringOf(baseUrl) \o StringOf(featuredImage))),
        threw |-> FALSE]

NoCompletion == [kind |-> "none", value |-> Undefined]

Return(v) == [kind |-> "return", value |-> v]

Throw(name) == [kind |-> "throw", value |-> Str(name)]

\* the whole call: the heap after it and how it completed
GenerateArticleSchema(h, p, o) ==
  LET h0 == DefaultOptionsHeap(h, o)
      opts == DefaultOptions(h, o)
  IN
  IF Nullish(opts) THEN [heap |-> h0, completion |-> Throw("TypeError")]
  ELSE
  LET baseUrl == NullishCoalesce(PropertyOf(h0, opts, "baseUrl"), Str(BASE_URL))
      publisherName ==
        NullishCoalesce(PropertyOf(h0, opts, "publisherName"), Str(PUBLISHER_NAME))
      publisherLogo ==
        NullishCoalesce(PropertyOf(h0, opts, "publisherLogo"), Str(PUBLISHER_LOGO))
      mainEntityOfPage ==
        ArticleMainEntityOfPage(baseUrl, PropertyOf(h0, p, "locale"),
                                PropertyOf(h0, p, "slug"))
      h1 == ArticleSchemaLiteral(h0, p, publisherName, publisherLogo, mainEntityOfPage)
      schema == Ref(Len(h1))
      h2 == AddDateModified(h1, schema, p)
      r == AddFeaturedImage(h2, schema, p, baseUrl)
  IN IF r.threw THEN [heap |-> r.heap, completion |-> Throw("TypeError")]
     ELSE [heap |-> r.heap, completion |-> Return(schema)]

(* ------------------------ generateBreadcrumbSchema --------------------- *)

BreadcrumbListItem(position, name, item) ==
  ("@type" :> Str("ListItem")) @@ ("position" :> Num(position))
  @@ ("name" :> name) @@ ("item" :> item)

\* { position: 1, name: homeLabel, item: `${baseUrl}/${post.locale}` }
BreadcrumbHomeItem(baseUrl, homeLabel, locale) ==
  BreadcrumbListItem(1, homeLabel, Str(StringOf(baseUrl) \o "/" \o StringOf(locale)))

\* the second entry with the first entry's URL (faulty variant)
BreadcrumbBlogItemHomeUrl(baseUrl, blogLabel, locale) ==
  BreadcrumbListItem(2, blogLabel, Str(StringOf(baseUrl) \o "/" \o StringOf(locale)))

\* { position: 2, name: blogLabel, item: `${baseUrl}/${post.locale}/blog` }
BreadcrumbBlogItem(baseUrl, blogLabel, locale) ==
  BreadcrumbListItem(2, blogLabel,
    Str(StringOf(baseUrl) \o "/" \o StringOf(locale) \o "/blog"))

\* the third entry copied from the second, position not updated (faulty variant)
BreadcrumbPostItemPosition2(baseUrl, title, locale, slug) ==
  BreadcrumbListItem(2, title,
    Str(StringOf(baseUrl) \o "/" \o StringOf(locale) \o "/blog/" \o StringOf(slug)))

\* the third entry without the locale segment (faulty variant)
BreadcrumbPostItemNoLocale(baseUrl, title, locale, slug) ==
  BreadcrumbListItem(3, title, Str(StringOf(baseUrl) \o "/blog/" \o StringOf(slug)))

\* { position: 3, name: post.title, item: `${baseUrl}/${post.locale}/blog/${post.slug}` }
BreadcrumbPostItem(baseUrl, title, locale, slug) ==
  BreadcrumbListItem(3, title,
    Str(StringOf(baseUrl) \o "/" \o StringOf(locale) \o "/blog/" \o StringOf(slug)))

\* an array literal of three elements: index properties and length
ArrayOf3(a, b, c) ==
  ("0" :> a) @@ ("1" :> b) @@ ("2" :> c) @@ ("length" :> Num(3))

GenerateBreadcrumbSchema(h, p, o) ==
  LET h0 == DefaultOptionsHeap(h, o)
      opts == DefaultOptions(h, o)
  IN
  IF Nullish(opts) THEN [heap |-> h0, completion |-> Throw("TypeError")]
  ELSE
  LET baseUrl == NullishCoalesce(PropertyOf(h0, opts, "baseUrl"), Str(BASE_URL))
      homeLabel == NullishCoalesce(PropertyOf(h0, opts, "homeLabel"), Str("Home"))
      blogLabel == NullishCoalesce(PropertyOf(h0, opts, "blogLabel"), Str("Blog"))
      locale == PropertyOf(h0, p, "locale")
      h1 == Allocate(h0, BreadcrumbHomeItem(baseUrl, homeLabel, locale))
      h2 == Allocate(h1, BreadcrumbBlogItem(baseUrl, blogLabel, locale))
      h3 == Allocate(h2, BreadcrumbPostItem(baseUrl, PropertyOf(h0, p, "title"),
                                            locale, PropertyOf(h0, p, "slug")))
      h4 == Allocate(h3, ArrayOf3(Ref(Len(h1)), Ref(Len(h2)), Ref(Len(h3))))
      h5 == Allocate(h4,
              ("@context" :> Str("https://schema.org"))
              @@ ("@type" :> Str("BreadcrumbList"))
              @@ ("itemListElement" :> Ref(Len(h4))))
  IN [heap |-> h5, completion |-> Return(Ref(Len(h5)))]

(* ------------------------------- callers ------------------------------- *)

\* an optional property left out of an object literal (no JavaScript value)
Absent == [type |-> "absent", str |-> "", num |-> 0]

WithOptional(obj, key, choice) ==
  IF choice = Absent THEN obj ELSE WithProperty(obj, key, choice)

\* the fields of BlogPost the generators read
PostObject(title, description, slug, publishedAt, author, locale, updatedAt, featuredImage) ==
  WithOptional(
    WithOptional(
      WithOptional(
        WithOptional(
          WithOptional(
            WithOptional(
              WithOptional(
                WithOptional(EmptyObject, "title", title),
                "description", description),
              "slug", slug),
            "publishedAt", publishedAt),
          "author", author),
        "locale", locale),
      "updatedAt", updatedAt),
    "featuredImage", featuredImage)

\* posts of type BlogPost: required strings, optional strings or undefined
TypedPosts ==
  { PostObject(Str("Intro"), Str("d"), s, Str("2024-01-01"), Str("Jane"), l, u, f) :
      s \in {Str("intro"), Str("a-b")},
      l \in {Str("en"), Str("ja")},
      u \in {Absent, Undefined, Str(""), Str("2024-02-01")},
      f \in {Absent, Undefined, Str(""), Str("/blog/image1.jpg"),
             Str("https://cdn.example.org/i.png")} }

OptionKeys == {"baseUrl", "publisherName", "publisherLogo", "homeLabel", "blogLabel"}

OptionOverride(k) ==
  CASE k = "baseUrl" -> "http://localhost:3000"
    [] k = "publisherName" -> "Acme"
    [] k = "publisherLogo" -> "/acme.png"
    [] k = "homeLabel" -> "Top"
    [] k = "blogLabel" -> "Articles"

\* string | undefined
TypedOptionValues(k) == {Undefined, Str(""), Str(OptionOverride(k))}

\* ArticleSchemaOptions / BreadcrumbSchemaOptions objects of at most
\* MaxOptionKeys own properties
TypedOptions ==
  UNION { { [k \in K |-> f[k]] :
              f \in { g \in [K -> UNION {TypedOptionValues(k) : k \in OptionKeys}] :
                        \A k \in K : g[k] \in TypedOptionValues(k) } } :
          K \in { S \in SUBSET OptionKeys : Cardinality(S) <= MaxOptionKeys } }

\* the caller holds a post and either passes an options object or none
InitWith(posts, optionObjects, optionPrimitives) ==
  /\ \E p \in posts :
       \/ \E o \in optionObjects :
            heap = <<p, o>> /\ options = Ref(Len(heap))
       \/ \E o \in optionPrimitives :
            heap = <<p>> /\ options = o
  /\ post = Ref(1)
  /\ article = NoCompletion
  /\ breadcrumb = NoCompletion
  /\ ncalls = 0

Init == InitWith(TypedPosts, TypedOptions, {Undefined})

CallGenerateArticleSchema ==
  /\ ncalls < MaxCalls
  /\ LET r == GenerateArticleSchema(heap, post, options) IN
       /\ heap' = r.heap
       /\ article' = r.completion
  /\ ncalls' = ncalls + 1
  /\ UNCHANGED <<post, options, breadcrumb>>

CallGenerateBreadcrumbSchema ==
  /\ ncalls < MaxCalls
  /\ LET r == GenerateBreadcrumbSchema(heap, post, options) IN
       /\ heap' = r.heap
       /\ breadcrumb' = r.completion
  /\ ncalls' = ncalls + 1
  /\ UNCHANGED <<post, options, article>>

Next == CallGenerateArticleSchema \/ CallGenerateBreadcrumbSchema

Spec == Init /\ [][Next]_vars

(* --------------------- callers outside the BlogPost type --------------- *)

\* post records with required fields missing and fields of other types
MalformedPosts ==
  { PostObject(t, Str("d"), s, Str("2024-01-01"), Str("Jane"), l, u, f) :
      t \in {Absent, Str("Intro")},
      s \in {Absent, Num(7), Str("intro")},
      l \in {Null, Str("en")},
      u \in {Absent, Null, Num(0), Num(20240201), Bool(TRUE), Str("2024-02-01")},
      f \in {Absent, Undefined, Null, Str(""), Num(0), Bool(FALSE), Num(42),
             Bool(TRUE), Str("/blog/image1.jpg"), Str("https://cdn.example.org/i.png")} }

MalformedOptions ==
  { EmptyObject, [baseUrl |-> Null], [baseUrl |-> Num(8080)],
    [baseUrl |-> Str("http://localhost:3000")] }

InitMalformed == InitWith(MalformedPosts, MalformedOptions, {Undefined, Null})

SpecMalformed == InitMalformed /\ [][Next]_vars

(* ------------------------ vocabulary of the claims --------------------- *)

Deref(v) == heap[v.num]

Has(v, key) == key \in DOMAIN Deref(v)

ArticleReturned == article.kind = "return"

BreadcrumbReturned == breadcrumb.kind = "return"

Schema == Deref(article.value)

Crumbs == Deref(Deref(breadcrumb.value)["itemListElement"])

Crumb(i) == Deref(Crumbs[i])

PostField(key) == IF Has(post, key) THEN Deref(post)[key] ELSE Undefined

\* the option is a property of the options object passed and is not undefined
OptionSupplied(key) ==
  /\ options.type = "object"
  /\ Has(options, key)
  /\ Deref(options)[key] # Undefined

EffectiveOption(key, default) ==
  IF OptionSupplied(key) THEN Deref(options)[key] ELSE Str(default)

EffectiveBaseUrl == EffectiveOption("baseUrl", "https://kanadojo.com")

IsProperPrefix(a, b) == Len(a) < Len(b) /\ SubSeq(b, 1, Len(a)) = a

(* -------------------------------- claims ------------------------------- *)

\* C1: the Article schema has dateModified if and only if post.updatedAt is
\* not undefined (any string, the empty one included), and then equals it.
C1_DateModifiedIffUpdatedAtDefined ==
  ArticleReturned =>
    /\ Has(article.value, "dateModified") <=> PostField("updatedAt") # Undefined
    /\ Has(article.value, "dateModified") =>
         Schema["dateModified"] = PostField("updatedAt")

\* C2: the Article schema has image if and only if post.featuredImage is
\* present; image is featuredImage itself when that starts with "http" and
\* baseUrl followed by featuredImage otherwise.
C2_ImageIffFeaturedImagePresent ==
  ArticleReturned =>
    /\ Has(article.value, "image") <=> PostField("featuredImage") # Undefined
    /\ Has(article.value, "image") =>
         Schema["image"] =
           IF StartsWith(PostField("featuredImage").str, "http")
           THEN PostField("featuredImage")
           ELSE Str(EffectiveBaseUrl.str \o PostField("featuredImage").str)

\* C3: mainEntityOfPage is baseUrl + "/" + post.locale + "/blog/" + post.slug,
\* baseUrl being options.baseUrl when supplied and https://kanadojo.com
\* otherwise.
C3_MainEntityOfPage ==
  ArticleReturned =>
    Schema["mainEntityOfPage"] =
      Str(EffectiveBaseUrl.str \o "/" \o PostField("locale").str
          \o "/blog/" \o PostField("slug").str)

C3_Witness ==
  /\ ArticleReturned
  /\ OptionSupplied("baseUrl")
  /\ EffectiveBaseUrl = Str("http://localhost:3000")
  /\ PostField("slug") = Str("a-b")
  /\ Schema["mainEntityOfPage"] = Str("http://localhost:3000/en/blog/a-b")

\* C4: for a valid post the Article schema has @context https://schema.org,
\* @type Article, headline = title, description = description, datePublished
\* = publishedAt and author = {@type: Person, name: author}, whatever the
\* options and the optional fields.
C4_RequiredFields ==
  ArticleReturned =>
    /\ Schema["@context"] = Str("https://schema.org")
    /\ Schema["@type"] = Str("Article")
    /\ Schema["headline"] = PostField("title")
    /\ Schema["description"] = PostField("description")
    /\ Schema["datePublished"] = PostField("publishedAt")
    /\ Schema["author"].type = "object"
    /\ DOMAIN Deref(Schema["author"]) = {"@type", "name"}
    /\ Deref(Schema["author"])["@type"] = Str("Person")
    /\ Deref(Schema["author"])["name"] = PostField("author")

C4_Witness ==
  /\ ArticleReturned
  /\ Schema["headline"] = Str("Intro")
  /\ Deref(Schema["author"])["name"] = Str("Jane")
  /\ Has(article.value, "dateModified")
  /\ Has(article.value, "image")
  /\ OptionSupplied("publisherName")

\* C5: baseUrl, publisherName and publisherLogo each take their default
\* exactly when the options object is omitted or the option is absent or
\* undefined, independently of one another; publisher is
\* {@type: Organization, name: publisherName, logo: {@type: ImageObject,
\* url: publisherLogo}}.
C5_OptionDefaults ==
  ArticleReturned =>
    /\ Schema["publisher"].type = "object"
    /\ DOMAIN Deref(Schema["publisher"]) = {"@type", "name", "logo"}
    /\ Deref(Schema["publisher"])["@type"] = Str("Organization")
    /\ Deref(Schema["publisher"])["name"] = EffectiveOption("publisherName", "KanaDojo")
    /\ Deref(Schema["publisher"])["logo"].type = "object"
    /\ Deref(Deref(Schema["publisher"])["logo"]) =
         ("@type" :> Str("ImageObject"))
         @@ ("url" :> EffectiveOption("publisherLogo", "https://kanadojo.com/logo.png"))
    /\ StartsWith(Schema["mainEntityOfPage"].str, EffectiveBaseUrl.str \o "/")
    /\ ~OptionSupplied("baseUrl") =>
         StartsWith(Schema["mainEntityOfPage"].str, "https://kanadojo.com/")
    /\ ~OptionSupplied("publisherName") =>
         Deref(Schema["publisher"])["name"] = Str("KanaDojo")

\* an empty publisherName is kept while the absent publisherLogo defaults
C5_Witness ==
  /\ ArticleReturned
  /\ OptionSupplied("publisherName")
  /\ Deref(options)["publisherName"] = Str("")
  /\ Deref(Schema["publisher"])["name"] = Str("")
  /\ ~Has(options, "publisherLogo")
  /\ Deref(Deref(Schema["publisher"])["logo"])["url"] = Str("https://kanadojo.com/logo.png")

\* C6: the BreadcrumbList schema has @context https://schema.org, @type
\* BreadcrumbList and exactly three entries, each of @type ListItem, the
\* entry at index i having position i + 1.
C6_BreadcrumbStructure ==
  BreadcrumbReturned =>
    /\ Deref(breadcrumb.value)["@context"] = Str("https://schema.org")
    /\ Deref(breadcrumb.value)["@type"] = Str("BreadcrumbList")
    /\ DOMAIN Crumbs = {"0", "1", "2", "length"}
    /\ Crumbs["length"] = Num(3)
    /\ \A i \in {"0", "1", "2"} : Crumb(i)["@type"] = Str("ListItem")
    /\ Crumb("0")["position"] = Num(1)
    /\ Crumb("1")["position"] = Num(2)
    /\ Crumb("2")["position"] = Num(3)

C6_Witness ==
  /\ BreadcrumbReturned
  /\ Crumbs["length"] = Num(3)
  /\ Crumb("2")["position"] = Num(3)
  /\ options.type = "object"

\* C7: the three entries are (homeLabel, baseUrl/locale), (blogLabel,
\* baseUrl/locale/blog) and (post.title, baseUrl/locale/blog/slug), with
\* defaults Home, Blog and https://kanadojo.com applying exactly when the
\* option is absent or undefined.
C7_BreadcrumbEntries ==
  BreadcrumbReturned =>
    LET base == EffectiveBaseUrl.str \o "/" \o PostField("locale").str IN
    /\ Crumb("0")["name"] = EffectiveOption("homeLabel", "Home")
    /\ Crumb("0")["item"] = Str(base)
    /\ Crumb("1")["name"] = EffectiveOption("blogLabel", "Blog")
    /\ Crumb("1")["item"] = Str(base \o "/blog")
    /\ Crumb("2")["name"] = PostField("title")
    /\ Crumb("2")["item"] = Str(base \o "/blog/" \o PostField("slug").str)

\* an empty homeLabel is kept while the undefined blogLabel defaults
C7_Witness ==
  /\ BreadcrumbReturned
  /\ OptionSupplied("homeLabel")
  /\ Crumb("0")["name"] = Str("")
  /\ Has(options, "blogLabel")
  /\ Deref(options)["blogLabel"] = Undefined
  /\ Crumb("1")["name"] = Str("Blog")
  /\ Crumb("1")["item"] = Str("https://kanadojo.com/ja/blog")

\* C10: for the same post and baseUrl the third breadcrumb URL equals the
\* Article schema's mainEntityOfPage, and the first and second breadcrumb
\* URLs are proper prefixes of it, each URL extending the previous one.
C10_BreadcrumbLeadsToArticle ==
  (ArticleReturned /\ BreadcrumbReturned) =>
    /\ Crumb("2")["item"] = Schema["mainEntityOfPage"]
    /\ IsProperPrefix(Crumb("0")["item"].str, Crumb("1")["item"].str)
    /\ IsProperPrefix(Crumb("1")["item"].str, Crumb("2")["item"].str)
    /\ IsProperPrefix(Crumb("0")["item"].str, Schema["mainEntityOfPage"].str)
    /\ IsProperPrefix(Crumb("1")["item"].str, Schema["mainEntityOfPage"].str)

C10_Witness ==
  /\ ArticleReturned
  /\ BreadcrumbReturned
  /\ OptionSupplied("baseUrl")
  /\ Crumb("0")["item"] = Str("http://localhost:3000/en")
  /\ Schema["mainEntityOfPage"] = Str("http://localhost:3000/en/blog/intro")

\* the options argument is omitted or is an object
OptionsUsable == options = Undefined \/ options.type = "object"

\* C8 (as claimed): generateArticleSchema raises no error for any non-null
\* post record, malformed ones included.
C8_NeverThrows == OptionsUsable => article.kind # "throw"

\* C8 (amended): called with options omitted or an options object, on a post
\* record whose fields are missing or primitive values, generateArticleSchema
\* throws exactly when post.featuredImage is a truthy value that is not a
\* string (a non-zero number, true); for every other post, required fields
\* missing or updatedAt of another type included, it returns a schema.
C8_ThrowsOnlyOnTruthyNonStringImage ==
  (OptionsUsable /\ article.kind # "none") =>
    /\ article.kind \in {"return", "throw"}
    /\ article.kind = "throw" <=>
         /\ PostField("featuredImage").type \in {"number", "boolean"}
         /\ PostField("featuredImage").num # 0
    /\ article.kind = "return" =>
         /\ article.value.type = "object"
         /\ Schema["@type"] = Str("Article")

\* a post without title, with a numeric updatedAt and a null featuredImage
C8_Witness ==
  /\ OptionsUsable
  /\ ArticleReturned
  /\ ~Has(post, "title")
  /\ PostField("updatedAt") = Num(20240201)
  /\ Schema["dateModified"] = Num(20240201)
  /\ PostField("featuredImage") = Null
  /\ ~Has(article.value, "image")

\* the objects reachable from a value
RECURSIVE Reach(_, _)
Reach(h, v) ==
  IF v.type # "object" THEN {}
  ELSE {v.num} \cup UNION { Reach(h, h[v.num][k]) : k \in DOMAIN h[v.num] }

\* a value with its references replaced by the objects they refer to
RECURSIVE View(_, _)
View(h, v) ==
  IF v.type # "object" THEN [kind |-> "primitive", value |-> v]
  ELSE [kind |-> "object", value |-> [k \in DOMAIN h[v.num] |-> View(h, h[v.num][k])]]

\* what a step leaves of a completion c: a new result is built of new objects
\* only, and repeats the previous result of the same generator
FreshAndRepeatable(c, cNext) ==
  (cNext # c /\ cNext.kind = "return") =>
    /\ Reach(heap', cNext.value) \cap DOMAIN heap = {}
    /\ c.kind = "return" => View(heap', cNext.value) = View(heap, c.value)

\* C9: no call modifies its post or options argument or a result returned
\* earlier; every result is newly constructed, sharing no object with the
\* arguments or with another result; two calls with equal arguments return
\* equal results.
C9_NoSideEffects ==
  [][ /\ \A a \in DOMAIN heap : a \in DOMAIN heap' /\ heap'[a] = heap[a]
      /\ post' = post /\ options' = options
      /\ FreshAndRepeatable(article, article')
      /\ FreshAndRepeatable(breadcrumb, breadcrumb')
    ]_vars

\* both generators have returned, one of them twice, on a post whose
\* updatedAt made the call write dateModified
C9_Witness ==
  /\ ncalls > 2
  /\ ArticleReturned
  /\ BreadcrumbReturned
  /\ Has(article.value, "dateModified")
  /\ Has(options, "baseUrl")
  /\ Reach(heap, article.value) \cap Reach(heap, breadcrumb.value) = {}

====
